---- MODULE Spec2Model ----
(***************************************************************************)
(* Model of src/object.rs: decoding of loose objects (blob, tree), the      *)
(* content hash of a blob and the classification of tree entries by mode.   *)
(* Byte buffers are sequences of integers 0..255; Rust strings are their    *)
(* UTF-8 bytes.  Indices kept in the state are 0-based as in the source.    *)
(***************************************************************************)
EXTENDS Integers, Sequences, FiniteSets, TLC

\* ------------------------------------------------------------------ bounds
MaxTokens == 4      \* raw buffers: at most this many tokens
MaxContent == 3     \* envelope contents: at most this many bytes
MaxRecords == 2     \* trees built from the record pool: at most this many records

\* ------------------------------------------------------- program constants
HashLen == 20

SP == 32
NUL == 0
PLUS == 43
BLOB == <<98, 108, 111, 98>>
TREE == <<116, 114, 101, 101>>
COMMIT == <<99, 111, 109, 109, 105, 116>>

\* ------------------------------------------------------------ slice helpers
Range(q) == {q[i] : i \in DOMAIN q}
Take(q, n) == SubSeq(q, 1, n)
Drop(q, n) == SubSeq(q, n + 1, Len(q))

\* position as rposition would compute it: the last b
position_last(buf, b) ==
  IF b \in Range(buf)
  THEN (CHOOSE i \in 1..Len(buf) : buf[i] = b /\ \A j \in (i + 1)..Len(buf) : buf[j] # b) - 1
  ELSE -1

\* s.iter().position(|&x| x == b): 0-based index of the first b, None as -1
position(buf, b) ==
  IF b \in Range(buf)
  THEN (CHOOSE i \in 1..Len(buf) : buf[i] = b /\ \A j \in 1..(i - 1) : buf[j] # b) - 1
  ELSE -1

\* std::str::from_utf8(..).is_ok(): well-formed UTF-8
IsCont(b) == b \in 128..191
RECURSIVE utf8_valid(_)
utf8_valid(q) ==
  IF q = <<>> THEN TRUE
  ELSE LET b == q[1] IN
    IF b < 128 THEN utf8_valid(Tail(q))
    ELSE IF b \in 194..223
      THEN Len(q) >= 2 /\ IsCont(q[2]) /\ utf8_valid(Drop(q, 2))
    ELSE IF b \in 224..239
      THEN /\ Len(q) >= 3
           /\ q[2] \in (IF b = 224 THEN 160..191 ELSE IF b = 237 THEN 128..159 ELSE 128..191)
           /\ IsCont(q[3])
           /\ utf8_valid(Drop(q, 3))
    ELSE IF b \in 240..244
      THEN /\ Len(q) >= 4
           /\ q[2] \in (IF b = 240 THEN 144..191 ELSE IF b = 244 THEN 128..143 ELSE 128..191)
           /\ IsCont(q[3])
           /\ IsCont(q[4])
           /\ utf8_valid(Drop(q, 4))
    ELSE FALSE

\* str::parse::<usize>(): optional leading '+', then one or more decimal
\* digits; an error is modelled as -1.  Buffers here are far too short for
\* the value to exceed usize::MAX.
IsDigit(b) == b \in 48..57
RECURSIVE digits_value(_)
digits_value(q) ==
  IF q = <<>> THEN 0
  ELSE digits_value(Take(q, Len(q) - 1)) * 10 + (q[Len(q)] - 48)
parse_usize(q) ==
  IF q = <<>> THEN -1
  ELSE LET digits == IF q[1] = PLUS THEN Tail(q) ELSE q IN
    IF digits = <<>> \/ \E i \in DOMAIN digits : ~IsDigit(digits[i])
    THEN -1
    ELSE digits_value(digits)

\* format!("{size}"): decimal rendering of a usize
RECURSIVE to_decimal(_)
to_decimal(n) ==
  IF n < 10 THEN <<48 + n>> ELSE to_decimal(n \div 10) \o <<48 + (n % 10)>>

\* hex::encode_upper
hex_digit_upper(n) == IF n < 10 THEN 48 + n ELSE 55 + n
RECURSIVE hex_encode_upper(_)
hex_encode_upper(q) ==
  IF q = <<>> THEN <<>>
  ELSE <<hex_digit_upper(q[1] \div 16), hex_digit_upper(q[1] % 16)>>
         \o hex_encode_upper(Tail(q))

\* hex::encode: two lowercase hex characters per byte
hex_digit(n) == IF n < 10 THEN 48 + n ELSE 87 + n
RECURSIVE hex_encode(_)
hex_encode(q) ==
  IF q = <<>> THEN <<>>
  ELSE <<hex_digit(q[1] \div 16), hex_digit(q[1] % 16)>> \o hex_encode(Tail(q))

\* ------------------------------------------------------------ result values
NoFiles == <<>>
NoResult == [kind |-> "none", msg |-> "", content |-> <<>>, files |-> NoFiles]
Err(m) == [kind |-> "err", msg |-> m, content |-> <<>>, files |-> NoFiles]
Panic == [kind |-> "panic", msg |-> "", content |-> <<>>, files |-> NoFiles]
OkBlob(c) == [kind |-> "blob", msg |-> "", content |-> c, files |-> NoFiles]
OkTree(f) == [kind |-> "tree", msg |-> "", content |-> <<>>, files |-> f]

NoHeader == [kind |-> "none", msg |-> "", type |-> <<>>, size |-> 0, end |-> 0]
HeaderErr(m) == [kind |-> "err", msg |-> m, type |-> <<>>, size |-> 0, end |-> 0]
HeaderPanic == [kind |-> "panic", msg |-> "", type |-> <<>>, size |-> 0, end |-> 0]
HeaderOk(t, n, e) == [kind |-> "ok", msg |-> "", type |-> t, size |-> n, end |-> e]

\* Object::parse_header
parse_header(buf) ==
  LET space_index == position(buf, SP)
      null_index == position(buf, NUL)
  IN
  IF space_index = -1 THEN HeaderErr("Incorrect header format")
  ELSE IF null_index = -1 THEN HeaderErr("Incorrect header format")
  ELSE IF ~utf8_valid(Take(buf, space_index)) THEN HeaderErr("Utf8Error")
  ELSE IF space_index + 1 > null_index THEN HeaderPanic   \* slice start > end
  ELSE LET size_str == SubSeq(buf, space_index + 2, null_index) IN
    IF ~utf8_valid(size_str) THEN HeaderErr("Utf8Error")
    ELSE IF parse_usize(size_str) = -1 THEN HeaderErr("ParseIntError")
    ELSE HeaderOk(Take(buf, space_index), parse_usize(size_str), null_index)

\* &s[header_end..]: the slice that still holds the NUL
content_from_nul(buf, header_end) == Drop(buf, header_end)

\* &s[header_end + 1..]
content_of(buf, header_end) == Drop(buf, header_end + 1)

\* content.len() < object_size: only a short content is refused
size_too_short(c, object_size) == Len(c) < object_size

\* content.len() != object_size
size_mismatch(c, object_size) == Len(c) # object_size

\* a match whose default arm is the blob arm
dispatch_default_blob(object_type) ==
  IF object_type = TREE THEN "tree" ELSE "blob"

\* match object_type.as_str()
dispatch(object_type) ==
  IF object_type = BLOB THEN "blob"
  ELSE IF object_type = TREE THEN "tree"
  ELSE "unknown"

\* BufRead::read_until on a byte slice: the bytes up to and including the
\* first delimiter, or everything that is left when there is none; it never
\* reports an error.
read_until(c, delim) ==
  IF position(c, delim) = -1 THEN c ELSE Take(c, position(c, delim) + 1)

\* File (the struct) and File::type_str
File(m, n, h) == [mode |-> m, name |-> n, hash |-> h]
M100644 == <<49, 48, 48, 54, 52, 52>>
M100755 == <<49, 48, 48, 55, 53, 53>>
M120000 == <<49, 50, 48, 48, 48, 48>>
M40000 == <<52, 48, 48, 48, 48>>
M160000 == <<49, 54, 48, 48, 48, 48>>
type_str_executable(file) ==
  IF file.mode = M100644 THEN "blob"
  ELSE IF file.mode = M100755 THEN "executable"
  ELSE IF file.mode = M120000 THEN "symlink"
  ELSE IF file.mode = M40000 THEN "tree"
  ELSE IF file.mode = M160000 THEN "submodule"
  ELSE "unknown"
type_str(file) ==
  IF file.mode = M100644 THEN "blob"
  ELSE IF file.mode = M100755 THEN "blob"
  ELSE IF file.mode = M120000 THEN "symlink"
  ELSE IF file.mode = M40000 THEN "tree"
  ELSE IF file.mode = M160000 THEN "submodule"
  ELSE "unknown"

\* hash(): hex of the SHA-1 digest of the bytes.  The digest is an ideal
\* (collision-free) function of the exact byte sequence.
hash(buf) == [sha1_hex_of |-> buf]

\* Blob::hash over "blob <size>" without the NUL
Blob_hash_no_nul(blob_content) ==
  hash(BLOB \o <<SP>> \o to_decimal(Len(blob_content)) \o blob_content)

\* Blob::hash
Blob_hash(blob_content) ==
  hash(BLOB \o <<SP>> \o to_decimal(Len(blob_content)) \o <<NUL>> \o blob_content)

\* ------------------------------------------------------------------ inputs
RECURSIVE SeqsUpTo(_, _)
SeqsUpTo(S, n) ==
  IF n = 0 THEN {<<>>}
  ELSE LET P == SeqsUpTo(S, n - 1) IN P \cup {Append(q, x) : q \in P, x \in S}

RECURSIVE Flatten(_)
Flatten(qs) == IF qs = <<>> THEN <<>> ELSE qs[1] \o Flatten(Tail(qs))

\* Raw buffers: any concatenation of a few tokens
RawTokens ==
  {BLOB, TREE, COMMIT, <<SP>>, <<NUL>>, <<48>>, <<49>>, <<PLUS>>, <<255>>}
RawInputs == {Flatten(ts) : ts \in SeqsUpTo(RawTokens, MaxTokens)}

\* Envelopes <tag> SP <size> NUL <X> with a right or a wrong declared size
Tags == {BLOB, TREE, COMMIT}
ContentBytes == {SP, NUL, 97, 255}
Contents == SeqsUpTo(ContentBytes, MaxContent)
SizeStrings(n) ==
  {to_decimal(n), to_decimal(n + 1), <<48>>, <<PLUS>> \o to_decimal(n),
   <<48>> \o to_decimal(n)}
Envelope(tag, size_str, x) == tag \o <<SP>> \o size_str \o <<NUL>> \o x
EnvelopeInputs ==
  UNION {{Envelope(tag, sz, x) : tag \in Tags, sz \in SizeStrings(Len(x))} :
         x \in Contents}

\* Test vectors of the source's unit tests
WhatIsUpDoc ==
  <<119, 104, 97, 116, SP, 105, 115, SP, 117, 112, 44, SP, 100, 111, 99, 63>>
Blob16 == BLOB \o <<SP, 49, 54, NUL>>
File1Txt == <<102, 105, 108, 101, 49, 46, 116, 120, 116>>
File2Txt == <<102, 105, 108, 101, 50, 46, 116, 120, 116>>
Folder == <<102, 111, 108, 100, 101, 114>>
Hash01 == [i \in 1..HashLen |-> i]
Hash51 == [i \in 1..HashLen |-> 80 + i]
Hash81 == [i \in 1..HashLen |-> 128 + i]
TestInputs ==
  {Blob16 \o x : x \in Contents}
    \cup {Blob16 \o WhatIsUpDoc, Take(Blob16, 7), BLOB,
          BLOB \o <<SP, 48, NUL, 104, 105>>,
          TREE \o <<SP, 49, 56, NUL>> \o M100644 \o <<SP>> \o File1Txt \o <<NUL, 1>>}
TestTreeRecords ==
  <<File(M100644, File1Txt, Hash01), File(M100644, File2Txt, Hash51),
    File(M40000, Folder, Hash81)>>

\* Tree records <mode> SP <name> NUL <20 raw bytes>; here the hash field of
\* a File holds the 20 raw bytes.  The pool has every recognised mode, an
\* unknown and an empty mode, names with a space, a multi-byte character or
\* nothing in them, hashes holding space, NUL and non-ASCII bytes, and a
\* mode and a name that are not UTF-8.
HashMixed ==
  [i \in 1..HashLen |-> IF i = 3 THEN SP ELSE IF i = 7 THEN NUL ELSE 255 - i]
RecordPool ==
  {File(M100644, <<102>>, Hash01),
   File(M100755, <<97, SP, 98>>, HashMixed),
   File(M120000, <<195, 169>>, Hash81),
   File(M40000, <<>>, HashMixed),
   File(M160000, <<109>>, Hash01),
   File(<<>>, <<117>>, HashMixed),
   File(<<55, NUL>>, <<110>>, Hash51),
   File(<<255>>, <<118>>, Hash01),
   File(<<54, 52, 52>>, <<255>>, HashMixed)}
RecordSeqs == SeqsUpTo(RecordPool, MaxRecords)

encode_record(r) == r.mode \o <<SP>> \o r.name \o <<NUL>> \o r.hash
RECURSIVE encode_records(_)
encode_records(rs) ==
  IF rs = <<>> THEN <<>> ELSE encode_record(rs[1]) \o encode_records(Tail(rs))
TreeEnvelope(rs) ==
  Envelope(TREE, to_decimal(Len(encode_records(rs))), encode_records(rs))

\* The tree of rs, whole or with its last record cut short, under a declared
\* size that is the length of what follows or one more
TreeInputs(rs) ==
  LET whole == encode_records(rs)
      first == IF rs = <<>> THEN 0 ELSE Len(whole) - Len(encode_record(rs[Len(rs)]))
  IN {Envelope(TREE, to_decimal(k + d), Take(whole, k)) :
        k \in first..Len(whole), d \in {0, 1}}

\* ------------------------------------------------------------------- state
VARIABLES
  s,        \* the buffer handed to Object::from_bytes
  recs,     \* the records the caller encoded into s (<<>> when s is not built from records)
  pc,       \* position in from_bytes and in its caller
  header,   \* result of parse_header: object_type, object_size, header_end
  content,  \* the content slice, advanced by the reads
  files,    \* the Vec<File> under construction
  mode,     \* the Vec filled by read_until(b' ')
  name,     \* the Vec filled by read_until(b'\0')
  result,   \* what from_bytes returned
  kinds,    \* type_str() of each file of a returned tree
  address   \* Blob::hash() of a returned blob

vars == <<s, recs, pc, header, content, files, mode, name, result, kinds, address>>

NoAddress == [sha1_hex_of |-> <<>>]

Init ==
  /\ \/ /\ recs = <<>>
        /\ s \in RawInputs \cup EnvelopeInputs \cup TestInputs
     \/ /\ recs \in RecordSeqs \cup {TestTreeRecords}
        /\ s \in TreeInputs(recs)
  /\ pc = "parse_header"
  /\ header = NoHeader
  /\ content = <<>>
  /\ files = <<>>
  /\ mode = <<>>
  /\ name = <<>>
  /\ result = NoResult
  /\ kinds = <<>>
  /\ address = NoAddress

\* ----------------------------------------------------- Object::from_bytes
\* let (object_type, object_size, header_end) = Object::parse_header(s)?;
ParseHeader ==
  /\ pc = "parse_header"
  /\ header' = parse_header(s)
  /\ IF header'.kind = "ok"
     THEN pc' = "check_size" /\ result' = result
     ELSE /\ pc' = "done"
          /\ result' = IF header'.kind = "panic" THEN Panic ELSE Err(header'.msg)
  /\ UNCHANGED <<s, recs, content, files, mode, name, kinds, address>>

\* let mut content = &s[header_end + 1..]; if content.len() != object_size ...
CheckSize ==
  /\ pc = "check_size"
  /\ content' = content_of(s, header.end)
  /\ IF size_mismatch(content', header.size)
     THEN pc' = "done" /\ result' = Err("Incorrect header length")
     ELSE pc' = "dispatch" /\ result' = result
  /\ UNCHANGED <<s, recs, header, files, mode, name, kinds, address>>

\* match object_type.as_str() { "blob" => .., "tree" => .., _ => .. }
Dispatch ==
  /\ pc = "dispatch"
  /\ IF dispatch(header.type) = "blob"
     THEN pc' = "done" /\ result' = OkBlob(content)
     ELSE IF dispatch(header.type) = "tree"
     THEN pc' = "loop" /\ result' = result
     ELSE pc' = "done" /\ result' = Err("Unknown object type")
  /\ files' = <<>>
  /\ UNCHANGED <<s, recs, header, content, mode, name, kinds, address>>

\* while !content.is_empty() fails: Ok(Object::Tree(Tree::new(files)))
TreeDone ==
  /\ pc = "loop"
  /\ content = <<>>
  /\ pc' = "done"
  /\ result' = OkTree(files)
  /\ UNCHANGED <<s, recs, header, content, files, mode, name, kinds, address>>

\* read_until(b' ', &mut mode); from_utf8(&mode[..mode_size - 1])?
ReadMode ==
  /\ pc = "loop"
  /\ content # <<>>
  /\ mode' = read_until(content, SP)
  /\ content' = Drop(content, Len(mode'))
  /\ IF utf8_valid(Take(mode', Len(mode') - 1))
     THEN pc' = "read_name" /\ result' = result
     ELSE pc' = "done" /\ result' = Err("Utf8Error")
  /\ UNCHANGED <<s, recs, header, files, name, kinds, address>>

\* read_until(b'\0', &mut name); from_utf8(&name[..name_size - 1])?
\* With nothing left name_size is 0 and name_size - 1 underflows: a panic on
\* the subtraction or on the slice, depending on the build.
ReadName ==
  /\ pc = "read_name"
  /\ name' = read_until(content, NUL)
  /\ content' = Drop(content, Len(name'))
  /\ IF Len(name') = 0
     THEN pc' = "done" /\ result' = Panic
     ELSE IF utf8_valid(Take(name', Len(name') - 1))
     THEN pc' = "read_hash" /\ result' = result
     ELSE pc' = "done" /\ result' = Err("Utf8Error")
  /\ UNCHANGED <<s, recs, header, files, mode, kinds, address>>

\* ReadHash that ends the loop on a short read and returns what it has
ReadHashPartial ==
  /\ pc = "read_hash"
  /\ IF Len(content) < HashLen
     THEN /\ pc' = "done"
          /\ result' = OkTree(files)
          /\ UNCHANGED <<content, files>>
     ELSE /\ files' = Append(files,
                 File(Take(mode, Len(mode) - 1), Take(name, Len(name) - 1),
                      hex_encode(Take(content, HashLen))))
          /\ content' = Drop(content, HashLen)
          /\ pc' = "loop"
          /\ result' = result
  /\ UNCHANGED <<s, recs, header, mode, name, kinds, address>>

\* read_exact(&mut hash).context("Failed to read hash")?; files.push(..)
ReadHash ==
  /\ pc = "read_hash"
  /\ IF Len(content) < HashLen
     THEN /\ pc' = "done"
          /\ result' = Err("Failed to read hash")
          /\ UNCHANGED <<content, files>>
     ELSE /\ files' = Append(files,
                 File(Take(mode, Len(mode) - 1), Take(name, Len(name) - 1),
                      hex_encode(Take(content, HashLen))))
          /\ content' = Drop(content, HashLen)
          /\ pc' = "loop"
          /\ result' = result
  /\ UNCHANGED <<s, recs, header, mode, name, kinds, address>>

\* ------------------------------------------------- the caller, afterwards
\* blob.hash() on the decoded blob
BlobHash ==
  /\ pc = "done"
  /\ result.kind = "blob"
  /\ address' = Blob_hash(result.content)
  /\ pc' = "hashed"
  /\ UNCHANGED <<s, recs, header, content, files, mode, name, result, kinds>>

\* file.type_str() on every file of the decoded tree
TypeStr ==
  /\ pc = "done"
  /\ result.kind = "tree"
  /\ kinds' = [i \in 1..Len(result.files) |-> type_str(result.files[i])]
  /\ pc' = "classified"
  /\ UNCHANGED <<s, recs, header, content, files, mode, name, result, address>>

Next ==
  \/ ParseHeader
  \/ CheckSize
  \/ Dispatch
  \/ TreeDone
  \/ ReadMode
  \/ ReadName
  \/ ReadHash
  \/ BlobHash
  \/ TypeStr

Spec == Init /\ [][Next]_vars

TypeOK ==
  /\ pc \in {"parse_header", "check_size", "dispatch", "loop", "read_name",
             "read_hash", "done", "hashed", "classified"}
  /\ result.kind \in {"none", "err", "panic", "blob", "tree"}

\* ------------------------------------------------ vocabulary of the claims
Returned == result.kind # "none"

\* b is at 1-based index i of q and nowhere before
FirstAt(q, b, i) == i \in DOMAIN q /\ q[i] = b /\ \A j \in 1..(i - 1) : q[j] # b

\* Base-10 value of a digit string, with an optional leading '+'
RECURSIVE Pow10(_)
Pow10(n) == IF n = 0 THEN 1 ELSE 10 * Pow10(n - 1)
RECURSIVE SumTo(_, _)
SumTo(f, n) == IF n = 0 THEN 0 ELSE f[n] + SumTo(f, n - 1)
DecimalValue(q) ==
  LET d == IF q # <<>> /\ q[1] = PLUS THEN Tail(q) ELSE q
  IN SumTo([i \in 1..Len(d) |-> (d[i] - 48) * Pow10(Len(d) - i)], Len(d))

\* The canonical decimal numeral of n: digits only, no leading zero
IsNumeralOf(q, n) ==
  /\ q # <<>>
  /\ \A i \in DOMAIN q : IsDigit(q[i])
  /\ (q[1] = 48 => Len(q) = 1)
  /\ DecimalValue(q) = n

\* s is the envelope <tag> SP <decimal length of x> NUL <x>, the tag being
\* text without space or NUL
IsEnvelope(buf, tag, x) ==
  /\ utf8_valid(tag)
  /\ SP \notin Range(tag)
  /\ NUL \notin Range(tag)
  /\ Len(buf) >= Len(tag) + Len(x) + 3
  /\ Take(buf, Len(tag)) = tag
  /\ buf[Len(tag) + 1] = SP
  /\ buf[Len(buf) - Len(x)] = NUL
  /\ Drop(buf, Len(buf) - Len(x)) = x
  /\ IsNumeralOf(SubSeq(buf, Len(tag) + 2, Len(buf) - Len(x) - 1), Len(x))

\* 40 lowercase hex characters of 20 bytes
HexChars == <<48, 49, 50, 51, 52, 53, 54, 55, 56, 57, 97, 98, 99, 100, 101, 102>>
LowerHex(q) ==
  [k \in 1..(2 * Len(q)) |->
     IF k % 2 = 1 THEN HexChars[(q[(k + 1) \div 2] \div 16) + 1]
     ELSE HexChars[(q[k \div 2] % 16) + 1]]

\* a record as the tree format has it: text mode without space, text name
\* without NUL, 20 raw bytes
WellFormedRecord(r) ==
  /\ utf8_valid(r.mode)
  /\ SP \notin Range(r.mode)
  /\ utf8_valid(r.name)
  /\ NUL \notin Range(r.name)
  /\ Len(r.hash) = HashLen

\* ------------------------------------------------------------------ claims
\* C1: from_bytes and parse_header always finish by returning a decoded
\* object / header or an error value; they never panic.
C1_ReturnsValueOrError ==
  /\ header.kind # "panic"
  /\ result.kind # "panic"

\* C2: decoding the tree envelope of any records r1..rn (n >= 0; text mode
\* without space, text name without NUL, 20 arbitrary bytes) returns a Tree
\* of exactly n entries in order, entry i having the mode and name of ri and
\* the 40-character lowercase hex of ri's 20 bytes.
C2_TreeRoundTrip ==
  (/\ Returned
   /\ s = TreeEnvelope(recs)
   /\ \A i \in DOMAIN recs : WellFormedRecord(recs[i]))
  => /\ result.kind = "tree"
     /\ Len(result.files) = Len(recs)
     /\ \A i \in DOMAIN recs :
          result.files[i] = File(recs[i].mode, recs[i].name, LowerHex(recs[i].hash))

C2_Witness ==
  /\ Returned
  /\ s = TreeEnvelope(recs)
  /\ Len(recs) = 2
  /\ recs[1] # recs[2]
  /\ \A i \in DOMAIN recs : WellFormedRecord(recs[i])
  /\ {SP, NUL} \subseteq Range(recs[1].hash)
  /\ result.kind = "tree"

\* C3: decoding "blob <len(X)>\0" followed by X returns the Blob whose
\* content is exactly X, which is what follows the first NUL of the buffer.
C3_BlobVerbatim ==
  Returned =>
    \A k \in 0..Len(s) :
      IsEnvelope(s, BLOB, Drop(s, Len(s) - k))
        => /\ result = OkBlob(Drop(s, Len(s) - k))
           /\ FirstAt(s, NUL, Len(s) - k)

C3_Witness ==
  /\ Returned
  /\ IsEnvelope(s, BLOB, <<NUL, SP, 255>>)
  /\ result = OkBlob(<<NUL, SP, 255>>)

\* C4: once the header has parsed, from_bytes fails with "Incorrect header
\* length" whenever the number of bytes after the header's NUL differs from
\* the declared size, whatever the type tag; no Blob or Tree is returned
\* from a content whose length differs from the declared size.
C4_SizeMismatch ==
  (Returned /\ header.kind = "ok") =>
    \A j \in DOMAIN s :
      FirstAt(s, NUL, j) =>
        /\ (Len(s) - j # header.size => result = Err("Incorrect header length"))
        /\ (result.kind \in {"blob", "tree"} => Len(s) - j = header.size)

C4_Witness ==
  /\ Returned
  /\ header.kind = "ok"
  /\ header.type = COMMIT
  /\ Len(content) > header.size
  /\ result = Err("Incorrect header length")

\* C5: decoding an envelope (header well formed, declared size equal to the
\* content length) whose type tag is "commit" or any tag other than "blob"
\* and "tree" fails with "Unknown object type"; no Object is returned.
C5_UnknownType ==
  Returned =>
    \A t \in DOMAIN s :
      FirstAt(s, SP, t) =>
        \A k \in 0..(Len(s) - t) :
          (/\ s[Len(s) - k] = NUL
           /\ Take(s, t - 1) \notin {BLOB, TREE}
           /\ IsEnvelope(s, Take(s, t - 1), Drop(s, Len(s) - k)))
          => result = Err("Unknown object type")

C5_Witness ==
  /\ Returned
  /\ IsEnvelope(s, COMMIT, <<97, NUL, SP>>)
  /\ result = Err("Unknown object type")

\* C6: parse_header fails with "Incorrect header format" when the buffer
\* has no space or no NUL; when it succeeds it returns the bytes before the
\* first space, the base-10 value of the bytes between that space and the
\* first NUL, and the index of the first NUL ("blob 16\0" X: blob, 16, 7).
C6_ParseHeader ==
  header.kind # "none" =>
    /\ (SP \notin Range(s) \/ NUL \notin Range(s))
         => header = HeaderErr("Incorrect header format")
    /\ header.kind = "ok" =>
         \E i, j \in DOMAIN s :
           /\ FirstAt(s, SP, i)
           /\ FirstAt(s, NUL, j)
           /\ header.type = Take(s, i - 1)
           /\ header.size = DecimalValue(SubSeq(s, i + 1, j - 1))
           /\ header.end = j - 1
    /\ (Len(s) >= Len(Blob16) /\ Take(s, Len(Blob16)) = Blob16)
         => header = HeaderOk(BLOB, 16, 7)

C6_Witness ==
  /\ header = HeaderOk(BLOB, 16, 7)
  /\ Len(s) = Len(Blob16) + MaxContent
  /\ {SP, NUL} \subseteq Range(Drop(s, Len(Blob16)))

\* C7: when fewer than 20 bytes (possibly none) remain after a record's
\* name NUL, the decode fails with "Failed to read hash": no Tree is
\* returned, and the entries of the earlier records are not returned.
C7_TruncatedHash ==
  [][(/\ pc = "read_hash"
      /\ name[Len(name)] = NUL
      /\ Len(content) < HashLen)
     => (pc' = "done" /\ result' = Err("Failed to read hash"))]_vars

C7_Witness ==
  /\ result = Err("Failed to read hash")
  /\ Len(files) >= 1
  /\ mode[Len(mode)] = SP
  /\ name[Len(name)] = NUL
  /\ content = <<>>

\* C8: a record for which no space is left while the mode is read, or no
\* NUL is left while the name is read, makes the decode fail with the
\* truncated-entry error ("Failed to read mode" / "Failed to read file
\* name").
C8_TruncatedEntry ==
  [][/\ (pc = "loop" /\ content # <<>> /\ SP \notin Range(content))
          => result' = Err("Failed to read mode")
     /\ (pc = "read_name" /\ NUL \notin Range(content))
          => result' = Err("Failed to read file name")]_vars

\* C9: Blob::new(c).hash() is the generic hash of "blob <decimal len(c)>\0"
\* followed by c; so hashing the Blob decoded from a canonical blob envelope
\* e gives hash(e).
C9_BlobHash ==
  pc = "hashed" =>
    /\ \E d \in SeqsUpTo(48..57, 3) :
         /\ IsNumeralOf(d, Len(result.content))
         /\ address = hash(BLOB \o <<SP>> \o d \o <<NUL>> \o result.content)
    /\ IsEnvelope(s, BLOB, result.content) => address = hash(s)

C9_Witness ==
  /\ pc = "hashed"
  /\ IsEnvelope(s, BLOB, result.content)
  /\ Len(result.content) >= 10
  /\ address = hash(s)

\* C10 (as claimed): the five recognised modes map to five distinct kinds.
Recognised == {M100644, M100755, M120000, M40000, M160000}
C10_FiveDistinctKinds ==
  pc = "classified" =>
    \A i, j \in DOMAIN kinds :
      (/\ result.files[i].mode \in Recognised
       /\ result.files[j].mode \in Recognised
       /\ result.files[i].mode # result.files[j].mode)
      => kinds[i] # kinds[j]

\* C10 (amended): type_str is total and maps "100644" and "100755" to
\* "blob", "120000" to "symlink", "40000" to "tree", "160000" to
\* "submodule" and every other mode to "unknown".
KindTable ==
  {<<M100644, "blob">>, <<M100755, "blob">>, <<M120000, "symlink">>,
   <<M40000, "tree">>, <<M160000, "submodule">>}
C10_KindMapping ==
  pc = "classified" =>
    /\ Len(kinds) = Len(result.files)
    /\ \A i \in DOMAIN kinds :
         \/ <<result.files[i].mode, kinds[i]>> \in KindTable
         \/ (result.files[i].mode \notin Recognised /\ kinds[i] = "unknown")

C10_Witness ==
  /\ pc = "classified"
  /\ Len(kinds) = 2
  /\ result.files[1].mode = M100644
  /\ result.files[2].mode = M100755
  /\ kinds = <<"blob", "blob">>
====
